---- MODULE Spec2Model ----
(***************************************************************************)
(* gh-action-trace (src/main.rs): main lists the workflows of a            *)
(* repository and spawns one process_workflow task per workflow; each task *)
(* retrieves the workflow's runs page by page (retrieve_runs), lists the   *)
(* jobs of every run and builds one span per job and one span per run.     *)
(***************************************************************************)
EXTENDS Integers, Sequences, FiniteSets

VARIABLES
    source,     \* what the GitHub repository holds (the API's answers are drawn from it)
    optsRuns,   \* opts.runs: number of runs to retrieve per workflow
    mainPc,     \* position of main: "list", "spawn", "returned", "failed"
    workflows,  \* main's `workflows`: the listed workflow ids
    spawnIdx,   \* index of the next workflow the for loop of main spawns
    spawned,    \* spawned[w]: number of process_workflow tasks spawned for w
    pc,         \* pc[w]: position of the task of workflow w
    n,          \* n[w]: retrieve_runs' `n`, the runs still wanted
    page,       \* page[w]: retrieve_runs' `page`
    runs,       \* runs[w]: the runs retrieved for workflow w
    idx,        \* idx[w]: position in `runs` of the run the for loop handles next
    spans,      \* spans[w]: the spans task w has built, in order
    bar,        \* bar[w]: the progress bar `pb` of task w
    requests,   \* requests[w]: the run-page requests task w has sent, in order
    jobsLog,    \* jobsLog[w]: the answer of every job listing task w has made, in order
    probe       \* input and output of the functions applied on their own

vars == <<source, optsRuns, mainPc, workflows, spawnIdx, spawned, pc, n, page,
          runs, idx, spans, bar, requests, jobsLog, probe>>

-----------------------------------------------------------------------------
(* Bounds of the model *)

\* most workflows the repository lists
MaxWf == 2
\* largest opts.runs tried with the full job universe
MaxDesired == 2
\* most runs the source holds for one workflow
MaxAvail == 2
\* most jobs a run has
MaxJobs == 2
\* latest timestamp
MaxTime == 3
\* most jobs of the run whose end time is computed on its own
EndMaxJobs == 3
\* largest of the small ids 0..MaxSmallId encoded
MaxSmallId == 12

\* per_page of list_runs and list_jobs: at most 100 (main.rs:203, main.rs:128)
MaxPerPage == 100
\* length given to a new progress bar (main.rs:80)
InitialBarLen == 128
\* hex digits of an 8-byte span id and of a 16-byte trace id
SpanIdHexDigits == 16
TraceIdHexDigits == 32

WfIds == 1..MaxWf
\* Option::None of a timestamp
NoTime == -1
Times == 0..MaxTime

Min(a, b) == IF a <= b THEN a ELSE b
Max(a, b) == IF a >= b THEN a ELSE b

-----------------------------------------------------------------------------
(* u64 identifiers.  A u64 is kept as three limbs <<a, b, c>> of seven      *)
(* decimal digits each: its value is a * 10^14 + b * 10^7 + c.             *)

Limb == 10000000
U64Max == <<184467, 4407370, 9551615>>

LimbLeq(x, y) ==
    \/ x[1] < y[1]
    \/ x[1] = y[1] /\ x[2] < y[2]
    \/ x[1] = y[1] /\ x[2] = y[2] /\ x[3] <= y[3]

IsU64(x) ==
    /\ x[1] \in 0..U64Max[1] /\ x[2] \in 0..(Limb - 1) /\ x[3] \in 0..(Limb - 1)
    /\ LimbLeq(x, U64Max)

U64(k) == <<0, 0, k>>

RECURSIVE DecDigits(_)
\* the decimal digits of a natural number, most significant first
DecDigits(k) == IF k < 10 THEN <<k>> ELSE DecDigits(k \div 10) \o <<k % 10>>

\* the seven decimal digits of a limb, zero padded
Pad7(k) == LET d == DecDigits(k) IN [i \in 1..(7 - Len(d)) |-> 0] \o d

\* u64::to_string(): the decimal digits, no leading zero
ToString(id) ==
    IF id[1] > 0 THEN DecDigits(id[1]) \o Pad7(id[2]) \o Pad7(id[3])
    ELSE IF id[2] > 0 THEN DecDigits(id[2]) \o Pad7(id[3])
    ELSE DecDigits(id[3])

RECURSIVE StripZeros(_)
StripZeros(s) == IF s # <<>> /\ Head(s) = 0 THEN StripZeros(Tail(s)) ELSE s

ZeroBytes(len) == [i \in 1..len |-> 0]

\* uN::from_str_radix(s, 16).unwrap_or(0), N = 4 * hexDigits, as N/8 big-endian
\* bytes: a digit string of more than hexDigits significant digits overflows,
\* the parse fails and the identifier is 0
FromHex(s, hexDigits) ==
    LET sig == StripZeros(s)
        padded == [i \in 1..(hexDigits - Len(sig)) |-> 0] \o sig
    IN  IF s = <<>> \/ Len(sig) > hexDigits
        THEN ZeroBytes(hexDigits \div 2)
        ELSE [i \in 1..(hexDigits \div 2) |-> 16 * padded[2 * i - 1] + padded[2 * i]]

\* SpanId::from_hex(id.to_string())
SpanIdOf(id) == FromHex(ToString(id), SpanIdHexDigits)
\* TraceId::from_hex(id.to_string())
TraceIdOf(id) == FromHex(ToString(id), TraceIdHexDigits)

-----------------------------------------------------------------------------
(* The source: runs of a workflow, most recent first, and jobs of a run *)

\* the run at position k (1 = most recent) of workflow w
RunAt(w, k) == [id |-> U64(1000 * w + k), created_at |-> source.created_at]

\* the id of the j-th job of a run: run number, then job number
JobIdOf(run, j) == <<0, run.id[3], j>>

\* list_runs(workflow).page(p).per_page(s): the runs at positions
\* (p-1)*s+1 .. p*s of the workflow's list
RunsPage(w, p, s) ==
    LET first == (p - 1) * s + 1
        last == Min(p * s, source.avail[w])
    IN  [i \in 1..Max(0, last - first + 1) |-> RunAt(w, first + i - 1)]

\* what the source may answer to a page request whose full page is `full`:
\* the full page, or, when the source cuts pages short, any prefix of it
PageAnswers(full) ==
    IF source.short THEN { SubSeq(full, 1, k) : k \in 0..Len(full) } ELSE {full}

\* the job lists a run of this repository can have: up to jobsCap jobs, each
\* with the start and completion times of one of source.jobTimes
JobLists(run) ==
    UNION { { [j \in 1..len |-> [id |-> JobIdOf(run, j),
                                 started_at |-> f[j].started_at,
                                 completed_at |-> f[j].completed_at]]
              : f \in [1..len -> source.jobTimes] }
            : len \in 0..source.jobsCap }

\* list_jobs(run.id).per_page(100): the first page of the run's jobs
JobsPage(all) == SubSeq(all, 1, Min(MaxPerPage, Len(all)))

-----------------------------------------------------------------------------
(* process_workflow: the trace of one run *)

\* the span built for a job
JobSpan(run, job) ==
    [kind |-> "job", of |-> job.id,
     span_id |-> SpanIdOf(job.id), trace_id |-> TraceIdOf(run.id),
     start |-> job.started_at, end |-> job.completed_at]

\* the span built for the run
RunSpan(run, last_end_time) ==
    [kind |-> "run", of |-> run.id,
     span_id |-> SpanIdOf(run.id), trace_id |-> TraceIdOf(run.id),
     start |-> run.created_at, end |-> last_end_time]

\* position of the first job whose started_at is None, where unwrap() panics;
\* 0 when every job has one
PanicAt(jobs) ==
    IF \E i \in 1..Len(jobs) : jobs[i].started_at = NoTime
    THEN CHOOSE i \in 1..Len(jobs) :
            /\ jobs[i].started_at = NoTime
            /\ \A k \in 1..(i - 1) : jobs[k].started_at # NoTime
    ELSE 0

RECURSIVE LastEndTimeOverwritten(_, _)
\* faulty variant: every completion time replaces last_end_time, later or not
LastEndTimeOverwritten(last, jobs) ==
    IF jobs = <<>> THEN last
    ELSE LET completed_at == Head(jobs).completed_at
         IN  LastEndTimeOverwritten(IF completed_at # NoTime
                                    THEN completed_at ELSE last,
                                    Tail(jobs))

RECURSIVE LastEndTimeEarlier(_, _)
\* faulty variant: the comparison is reversed, an earlier completion time
\* replaces last_end_time
LastEndTimeEarlier(last, jobs) ==
    IF jobs = <<>> THEN last
    ELSE LET completed_at == Head(jobs).completed_at
         IN  LastEndTimeEarlier(IF completed_at # NoTime /\ completed_at < last
                                THEN completed_at ELSE last,
                                Tail(jobs))

\* main.rs:161-165, last_end_time after the loop body for one job
UpdateLastEndTime(last, job) ==
    IF job.completed_at # NoTime /\ job.completed_at > last
    THEN job.completed_at ELSE last

RECURSIVE LastEndTime(_, _)
\* last_end_time after the loop over jobs, started at `last`: the loop over
\* the first half of the jobs, then the loop over the second half
LastEndTime(last, jobs) ==
    IF jobs = <<>> THEN last
    ELSE IF Len(jobs) = 1 THEN UpdateLastEndTime(last, jobs[1])
    ELSE LET half == Len(jobs) \div 2
             mid == LastEndTime(last, SubSeq(jobs, 1, half))
         IN  \* mid is a time: the loop over the first half is complete
             \* before the loop over the second half begins
             IF mid \in Int
             THEN LastEndTime(mid, SubSeq(jobs, half + 1, Len(jobs)))
             ELSE mid

\* the spans of the jobs at positions 1..upto, in the order of the job list
JobSpans(run, jobs, upto) == [i \in 1..upto |-> JobSpan(run, jobs[i])]

\* faulty variant: the run span is built before the job spans
RunTraceRunFirst(run, jobs) ==
    <<RunSpan(run, LastEndTime(run.created_at, jobs))>>
        \o JobSpans(run, jobs, Len(jobs))

\* all the spans built for a run whose jobs all have a start time:
\* the job spans in order, then the run span
RunTrace(run, jobs) ==
    JobSpans(run, jobs, Len(jobs))
        \o <<RunSpan(run, LastEndTime(run.created_at, jobs))>>

-----------------------------------------------------------------------------
(* Progress bars *)

NoBar == [len |-> 0, pos |-> 0, finished |-> FALSE, added |-> FALSE]
NewBar == [len |-> InitialBarLen, pos |-> 0, finished |-> FALSE, added |-> TRUE]
\* finish_with_message: the position jumps to the length
FinishedBar(b) == [b EXCEPT !.pos = b.len, !.finished = TRUE]
\* a bar dropped unfinished (its task panicked) is marked done as it is
DroppedBar(b) == [b EXCEPT !.finished = TRUE]

-----------------------------------------------------------------------------
(* Initial states *)

TasksIdle ==
    /\ workflows = <<>>
    /\ spawnIdx = 1
    /\ spawned = [w \in WfIds |-> 0]
    /\ pc = [w \in WfIds |-> "unspawned"]
    /\ n = [w \in WfIds |-> 0]
    /\ page = [w \in WfIds |-> 1]
    /\ runs = [w \in WfIds |-> <<>>]
    /\ idx = [w \in WfIds |-> 1]
    /\ spans = [w \in WfIds |-> <<>>]
    /\ bar = [w \in WfIds |-> NoBar]
    /\ requests = [w \in WfIds |-> <<>>]
    /\ jobsLog = [w \in WfIds |-> <<>>]

NoProbe == [phase |-> "none"]

\* job timing: not dispatched yet, running, completed
Pending == [started_at |-> NoTime, completed_at |-> NoTime]
Running == [started_at |-> 1, completed_at |-> NoTime]
Completed == [started_at |-> 1, completed_at |-> 2]

\* one workflow, every job list of up to MaxJobs jobs
Init ==
    /\ \E a \in 0..MaxAvail :
          source = [workflows |-> <<1>>,
                    avail |-> [w \in WfIds |-> a],
                    created_at |-> 1,
                    short |-> FALSE,
                    jobsCap |-> MaxJobs,
                    jobTimes |-> {Pending, Running, Completed}]
    /\ optsRuns \in 0..MaxDesired
    /\ mainPc = "list"
    /\ TasksIdle
    /\ probe = NoProbe

-----------------------------------------------------------------------------
(* main *)

\* main.rs:70-75, the workflow list arrives
ListWorkflows ==
    /\ mainPc = "list"
    /\ mainPc' = "spawn"
    /\ workflows' = source.workflows
    /\ UNCHANGED <<source, optsRuns, spawnIdx, spawned, pc, n, page, runs, idx,
                   spans, bar, requests, jobsLog, probe>>

\* main.rs:70-75, listing the workflows fails and `?` returns the error
ListWorkflowsFailed ==
    /\ mainPc = "list"
    /\ mainPc' = "failed"
    /\ UNCHANGED <<source, optsRuns, workflows, spawnIdx, spawned, pc, n, page,
                   runs, idx, spans, bar, requests, jobsLog, probe>>

\* main.rs:77-94, one iteration of the for loop: a progress bar is added and
\* the task of the workflow is spawned
SpawnWorkflow ==
    /\ mainPc = "spawn"
    /\ spawnIdx <= Len(workflows)
    /\ LET w == workflows[spawnIdx] IN
          /\ bar' = [bar EXCEPT ![w] = NewBar]
          /\ spawned' = [spawned EXCEPT ![w] = @ + 1]
          /\ pc' = [pc EXCEPT ![w] = "retrieve_runs"]
          /\ n' = [n EXCEPT ![w] = optsRuns]
          /\ page' = [page EXCEPT ![w] = 1]
          /\ runs' = [runs EXCEPT ![w] = <<>>]
    /\ spawnIdx' = spawnIdx + 1
    /\ UNCHANGED <<source, optsRuns, mainPc, workflows, idx, spans, requests,
                   jobsLog, probe>>

\* faulty variant: main does not wait for the bars
JoinReadyNoWait == TRUE

\* MultiProgress::join returns once every bar added to it is finished
JoinReady == \A i \in 1..Len(workflows) : bar[workflows[i]].finished

\* main.rs:96-97, m.join() returns and main returns
Join ==
    /\ mainPc = "spawn"
    /\ spawnIdx > Len(workflows)
    /\ JoinReady
    /\ mainPc' = "returned"
    /\ UNCHANGED <<source, optsRuns, workflows, spawnIdx, spawned, pc, n, page,
                   runs, idx, spans, bar, requests, jobsLog, probe>>

-----------------------------------------------------------------------------
(* retrieve_runs, one pass of its loop per action *)

\* faulty variant: every page is requested with the largest page size
PerPageAlwaysMax(remaining) == MaxPerPage

\* main.rs:203-206
PerPage(remaining) == IF remaining <= MaxPerPage THEN remaining ELSE MaxPerPage

\* retrieve_runs returned Ok(runs): main.rs:117-120, the bar gets its length
GotRuns(w) ==
    /\ pc' = [pc EXCEPT ![w] = "list_jobs"]
    /\ idx' = [idx EXCEPT ![w] = 1]
    /\ bar' = [bar EXCEPT ![w].len = Len(runs'[w])]

\* main.rs:199-201, nothing more is wanted
RetrieveRunsDone(w) ==
    /\ pc[w] = "retrieve_runs"
    /\ n[w] = 0
    /\ UNCHANGED runs
    /\ GotRuns(w)
    /\ UNCHANGED <<source, optsRuns, mainPc, workflows, spawnIdx, spawned, n,
                   page, spans, requests, jobsLog, probe>>

Request(w, got) == [page |-> page[w], per_page |-> PerPage(n[w]), got |-> got]

\* faulty variant: a failed page request is swallowed and the runs retrieved
\* so far are returned
RunsPageFailedSwallowed(w) ==
    /\ pc[w] = "retrieve_runs"
    /\ n[w] # 0
    /\ requests' = [requests EXCEPT ![w] = Append(@, Request(w, -1))]
    /\ UNCHANGED runs
    /\ GotRuns(w)
    /\ UNCHANGED <<source, optsRuns, mainPc, workflows, spawnIdx, spawned, n,
                   page, spans, jobsLog, probe>>

\* main.rs:208-215 and 117, the page request fails: `?` returns the error and
\* unwrap() panics; the task ends and its bar is dropped
RunsPageFailed(w) ==
    /\ pc[w] = "retrieve_runs"
    /\ n[w] # 0
    /\ requests' = [requests EXCEPT ![w] = Append(@, Request(w, -1))]
    /\ pc' = [pc EXCEPT ![w] = "panicked"]
    /\ bar' = [bar EXCEPT ![w] = DroppedBar(@)]
    /\ UNCHANGED <<source, optsRuns, mainPc, workflows, spawnIdx, spawned, n,
                   page, runs, idx, spans, jobsLog, probe>>

\* faulty variant: an empty page is an error
RunsPageEmptyIsError(w) ==
    /\ pc[w] = "retrieve_runs"
    /\ n[w] # 0
    /\ <<>> \in PageAnswers(RunsPage(w, page[w], PerPage(n[w])))
    /\ requests' = [requests EXCEPT ![w] = Append(@, Request(w, 0))]
    /\ pc' = [pc EXCEPT ![w] = "panicked"]
    /\ bar' = [bar EXCEPT ![w] = DroppedBar(@)]
    /\ UNCHANGED <<source, optsRuns, mainPc, workflows, spawnIdx, spawned, n,
                   page, runs, idx, spans, jobsLog, probe>>

\* main.rs:208-220, the page is empty: break
RunsPageEmpty(w) ==
    /\ pc[w] = "retrieve_runs"
    /\ n[w] # 0
    /\ <<>> \in PageAnswers(RunsPage(w, page[w], PerPage(n[w])))
    /\ requests' = [requests EXCEPT ![w] = Append(@, Request(w, 0))]
    /\ UNCHANGED runs
    /\ GotRuns(w)
    /\ UNCHANGED <<source, optsRuns, mainPc, workflows, spawnIdx, spawned, n,
                   page, spans, jobsLog, probe>>

\* main.rs:208-226, the page holds items
RunsPageItems(w) ==
    /\ pc[w] = "retrieve_runs"
    /\ n[w] # 0
    /\ \E items \in PageAnswers(RunsPage(w, page[w], PerPage(n[w]))) :
          /\ items # <<>>
          /\ requests' = [requests EXCEPT ![w] = Append(@, Request(w, Len(items)))]
          /\ n' = [n EXCEPT ![w] = @ - Len(items)]
          /\ page' = [page EXCEPT ![w] = @ + 1]
          /\ runs' = [runs EXCEPT ![w] = @ \o items]
    /\ UNCHANGED <<source, optsRuns, mainPc, workflows, spawnIdx, spawned, pc,
                   idx, spans, bar, jobsLog, probe>>

-----------------------------------------------------------------------------
(* process_workflow, one run of the for loop per action *)

\* faulty variant: the loop takes the runs from the end of the list
CurrentRunFromEnd(w) == runs[w][Len(runs[w]) + 1 - idx[w]]

\* main.rs:123, the run the for loop handles next
CurrentRun(w) == runs[w][idx[w]]

\* the record of one job listing: the run, whether the listing succeeded, the
\* jobs the source holds for the run, and where in spans[w] the spans built
\* while handling the run lie (positions first..last)
Listing(w, ok, all, built) ==
    [run |-> CurrentRun(w), ok |-> ok, jobs |-> all,
     first |-> Len(spans[w]) + 1, last |-> Len(spans[w]) + built]

\* main.rs:124-135, listing the jobs fails: the run is skipped
ListJobsFailed(w) ==
    /\ pc[w] = "list_jobs"
    /\ idx[w] <= Len(runs[w])
    /\ jobsLog' = [jobsLog EXCEPT ![w] = Append(@, Listing(w, FALSE, <<>>, 0))]
    /\ idx' = [idx EXCEPT ![w] = @ + 1]
    /\ UNCHANGED <<source, optsRuns, mainPc, workflows, spawnIdx, spawned, pc, n,
                   page, runs, spans, bar, requests, probe>>

\* main.rs:124-182, the jobs arrive and every one has a start time: the job
\* spans, then the run span, then pb.inc(1)
BuildRunTrace(w) ==
    /\ pc[w] = "list_jobs"
    /\ idx[w] <= Len(runs[w])
    /\ \E all \in JobLists(CurrentRun(w)) :
          LET run == CurrentRun(w)
              jobs == JobsPage(all)
          IN  /\ PanicAt(jobs) = 0
              /\ jobsLog' = [jobsLog EXCEPT ![w] =
                                Append(@, Listing(w, TRUE, all, Len(RunTrace(run, jobs))))]
              /\ spans' = [spans EXCEPT ![w] = @ \o RunTrace(run, jobs)]
    /\ bar' = [bar EXCEPT ![w].pos = @ + 1]
    /\ idx' = [idx EXCEPT ![w] = @ + 1]
    /\ UNCHANGED <<source, optsRuns, mainPc, workflows, spawnIdx, spawned, pc, n,
                   page, runs, requests, probe>>

\* main.rs:124-150, the jobs arrive and one has no start time: the spans of
\* the jobs before it are built, then started_at.unwrap() panics; the task
\* ends and its bar is dropped
BuildRunTracePanics(w) ==
    /\ pc[w] = "list_jobs"
    /\ idx[w] <= Len(runs[w])
    /\ \E all \in JobLists(CurrentRun(w)) :
          LET run == CurrentRun(w)
              jobs == JobsPage(all)
          IN  /\ PanicAt(jobs) # 0
              /\ jobsLog' = [jobsLog EXCEPT ![w] =
                                Append(@, Listing(w, TRUE, all, PanicAt(jobs) - 1))]
              /\ spans' = [spans EXCEPT ![w] = @ \o JobSpans(run, jobs, PanicAt(jobs) - 1)]
    /\ pc' = [pc EXCEPT ![w] = "panicked"]
    /\ bar' = [bar EXCEPT ![w] = DroppedBar(@)]
    /\ UNCHANGED <<source, optsRuns, mainPc, workflows, spawnIdx, spawned, n,
                   page, runs, idx, requests, probe>>

\* main.rs:184-185, every run is handled: the bar is finished, Ok(())
FinishWorkflow(w) ==
    /\ pc[w] = "list_jobs"
    /\ idx[w] > Len(runs[w])
    /\ pc' = [pc EXCEPT ![w] = "done"]
    /\ bar' = [bar EXCEPT ![w] = FinishedBar(@)]
    /\ UNCHANGED <<source, optsRuns, mainPc, workflows, spawnIdx, spawned, n,
                   page, runs, idx, spans, requests, jobsLog, probe>>

-----------------------------------------------------------------------------

RetrieveRuns(w) ==
    \/ RetrieveRunsDone(w)
    \/ RunsPageFailed(w)
    \/ RunsPageEmpty(w)
    \/ RunsPageItems(w)

ProcessWorkflow(w) ==
    \/ RetrieveRuns(w)
    \/ ListJobsFailed(w)
    \/ BuildRunTrace(w)
    \/ BuildRunTracePanics(w)
    \/ FinishWorkflow(w)

Main ==
    \/ ListWorkflows
    \/ ListWorkflowsFailed
    \/ SpawnWorkflow
    \/ Join

Next ==
    \/ Main
    \/ \E w \in WfIds : ProcessWorkflow(w)

Spec == Init /\ [][Next]_vars

-----------------------------------------------------------------------------
(* The batch: up to MaxWf workflows side by side.  To keep the product of   *)
(* the tasks' states small, each workflow holds at most two runs of at     *)
(* most one job, not dispatched yet or completed.                          *)

InitBatch ==
    /\ \E nw \in 0..MaxWf, a \in 0..2 :
          source = [workflows |-> [i \in 1..nw |-> i],
                    avail |-> [w \in WfIds |-> a],
                    created_at |-> 1,
                    short |-> FALSE,
                    jobsCap |-> 1,
                    jobTimes |-> {Pending, Completed}]
    /\ optsRuns \in 0..2
    /\ mainPc = "list"
    /\ TasksIdle
    /\ probe = NoProbe

SpecBatch == InitBatch /\ [][Next]_vars

-----------------------------------------------------------------------------
(* retrieve_runs on its own, with run counts around the page size of 100 *)

\* main has listed workflow 1 and spawned its task, which has not run yet
OneTaskSpawned ==
    /\ mainPc = "spawn"
    /\ workflows = <<1>>
    /\ spawnIdx = 2
    /\ spawned = [w \in WfIds |-> IF w = 1 THEN 1 ELSE 0]
    /\ pc = [w \in WfIds |-> IF w = 1 THEN "retrieve_runs" ELSE "unspawned"]
    /\ n = [w \in WfIds |-> IF w = 1 THEN optsRuns ELSE 0]
    /\ page = [w \in WfIds |-> 1]
    /\ runs = [w \in WfIds |-> <<>>]
    /\ idx = [w \in WfIds |-> 1]
    /\ spans = [w \in WfIds |-> <<>>]
    /\ bar = [w \in WfIds |-> IF w = 1 THEN NewBar ELSE NoBar]
    /\ requests = [w \in WfIds |-> <<>>]
    /\ jobsLog = [w \in WfIds |-> <<>>]

DesiredCounts == (0..MaxDesired) \cup {30, 99, 100, 101, 150, 200, 250}
AvailCounts == (0..MaxAvail) \cup {20, 100, 120, 200, 300}

\* a source that pages by offset holding any of AvailCounts runs; for the
\* small run counts also a source that may cut any page short
InitRuns ==
    /\ optsRuns \in DesiredCounts
    /\ \E a \in AvailCounts, sh \in BOOLEAN :
          /\ sh => (optsRuns <= MaxDesired /\ a <= MaxAvail)
          /\ source = [workflows |-> <<1>>,
                       avail |-> [w \in WfIds |-> a],
                       created_at |-> 1,
                       short |-> sh,
                       jobsCap |-> 0,
                       jobTimes |-> {}]
    /\ OneTaskSpawned
    /\ probe = NoProbe

NextRuns == \E w \in WfIds : RetrieveRuns(w)

SpecRuns == InitRuns /\ [][NextRuns]_vars

-----------------------------------------------------------------------------
(* The trace of one run, over every combination of job times *)

\* every timing of a dispatched job, and the job not dispatched yet
AllJobTimes ==
    {Pending} \cup
    { [started_at |-> s, completed_at |-> c] :
        s \in {0}, c \in {NoTime} \cup Times }

\* the task of workflow 1 has retrieved one run and is about to list its jobs
InitEnd ==
    /\ \E t \in Times :
          source = [workflows |-> <<1>>,
                    avail |-> [w \in WfIds |-> 1],
                    created_at |-> t,
                    short |-> FALSE,
                    jobsCap |-> EndMaxJobs,
                    jobTimes |-> AllJobTimes]
    /\ optsRuns = 1
    /\ mainPc = "spawn"
    /\ workflows = <<1>>
    /\ spawnIdx = 2
    /\ spawned = [w \in WfIds |-> IF w = 1 THEN 1 ELSE 0]
    /\ pc = [w \in WfIds |-> IF w = 1 THEN "list_jobs" ELSE "unspawned"]
    /\ n = [w \in WfIds |-> 0]
    /\ page = [w \in WfIds |-> IF w = 1 THEN 2 ELSE 1]
    /\ runs = [w \in WfIds |-> IF w = 1 THEN <<RunAt(1, 1)>> ELSE <<>>]
    /\ idx = [w \in WfIds |-> 1]
    /\ spans = [w \in WfIds |-> <<>>]
    /\ bar = [w \in WfIds |-> IF w = 1 THEN [NewBar EXCEPT !.len = 1] ELSE NoBar]
    /\ requests = [w \in WfIds |->
                      IF w = 1 THEN <<[page |-> 1, per_page |-> 1, got |-> 1]>>
                      ELSE <<>>]
    /\ jobsLog = [w \in WfIds |-> <<>>]
    /\ probe = NoProbe

NextEnd ==
    \E w \in WfIds :
        \/ ListJobsFailed(w)
        \/ BuildRunTrace(w)
        \/ BuildRunTracePanics(w)
        \/ FinishWorkflow(w)

SpecEnd == InitEnd /\ [][NextEnd]_vars

-----------------------------------------------------------------------------
(* The trace of one run of many jobs, more than one page of them *)

\* most jobs of the run with many jobs
ManyJobs == 150

\* the task of workflow 1 has retrieved one run and is about to list its jobs:
\* up to ManyJobs jobs, all of them completed or none of them dispatched
InitJobs ==
    /\ \E times \in {Completed, Pending} :
          source = [workflows |-> <<1>>,
                    avail |-> [w \in WfIds |-> 1],
                    created_at |-> 1,
                    short |-> FALSE,
                    jobsCap |-> ManyJobs,
                    jobTimes |-> {times}]
    /\ optsRuns = 1
    /\ mainPc = "spawn"
    /\ workflows = <<1>>
    /\ spawnIdx = 2
    /\ spawned = [w \in WfIds |-> IF w = 1 THEN 1 ELSE 0]
    /\ pc = [w \in WfIds |-> IF w = 1 THEN "list_jobs" ELSE "unspawned"]
    /\ n = [w \in WfIds |-> 0]
    /\ page = [w \in WfIds |-> IF w = 1 THEN 2 ELSE 1]
    /\ runs = [w \in WfIds |-> IF w = 1 THEN <<RunAt(1, 1)>> ELSE <<>>]
    /\ idx = [w \in WfIds |-> 1]
    /\ spans = [w \in WfIds |-> <<>>]
    /\ bar = [w \in WfIds |-> IF w = 1 THEN [NewBar EXCEPT !.len = 1] ELSE NoBar]
    /\ requests = [w \in WfIds |->
                      IF w = 1 THEN <<[page |-> 1, per_page |-> 1, got |-> 1]>>
                      ELSE <<>>]
    /\ jobsLog = [w \in WfIds |-> <<>>]
    /\ probe = NoProbe

SpecJobs == InitJobs /\ [][NextEnd]_vars

-----------------------------------------------------------------------------
(* The identifiers on their own, over u64 ids of every length *)

\* 10^7, 10^14 - 1, 10^15, 10^16 - 1, 10^16, 10^16 + 1, 10^19, 2^64 - 2, 2^64 - 1
LongIds ==
    { <<0, 1, 0>>, <<0, 9999999, 9999999>>, <<10, 0, 0>>,
      <<99, 9999999, 9999999>>, <<100, 0, 0>>, <<100, 0, 1>>,
      <<100000, 0, 0>>, <<184467, 4407370, 9551614>>, U64Max }

IdSamples == { x \in { U64(k) : k \in 0..MaxSmallId } \cup LongIds : IsU64(x) }

InitIds ==
    /\ \E a \in IdSamples, b \in IdSamples :
          probe = [phase |-> "ids", a |-> a, b |-> b]
    /\ source = [workflows |-> <<>>, avail |-> [w \in WfIds |-> 0],
                 created_at |-> 0, short |-> FALSE, jobsCap |-> 0, jobTimes |-> {}]
    /\ optsRuns = 0
    /\ mainPc = "list"
    /\ TasksIdle

\* main.rs:144-148 and 171-175: the span id and the trace id of two ids
EncodeIds ==
    /\ probe.phase = "ids"
    /\ probe' = [phase |-> "encoded", a |-> probe.a, b |-> probe.b,
                 span_a |-> SpanIdOf(probe.a), span_b |-> SpanIdOf(probe.b),
                 trace_a |-> TraceIdOf(probe.a), trace_b |-> TraceIdOf(probe.b)]
    /\ UNCHANGED <<source, optsRuns, mainPc, workflows, spawnIdx, spawned, pc, n,
                   page, runs, idx, spans, bar, requests, jobsLog>>

NextIds == EncodeIds

SpecIds == InitIds /\ [][NextIds]_vars

-----------------------------------------------------------------------------
(* value_to_vec on its own.  A serde_json::Value is a record of its kind   *)
(* and its content; an object is the sequence of its entries in the order  *)
(* of the map; a text is the sequence of its characters.                   *)

\* longest list of numbers tried
MaxListLen == 3

JsonNull == [kind |-> "null", val |-> 0]
JsonBool(b) == [kind |-> "bool", val |-> b]
JsonNumber(k) == [kind |-> "number", val |-> k]
JsonString(t) == [kind |-> "string", val |-> t]
JsonArray(items) == [kind |-> "array", val |-> items]
JsonObject(entries) == [kind |-> "object", val |-> entries]

\* the list [1, 2, .., len]
NumberList(len) == JsonArray([i \in 1..len |-> JsonNumber(i)])

DigitChar(d) == <<"0", "1", "2", "3", "4", "5", "6", "7", "8", "9">>[d + 1]

\* the decimal text of a natural number
NumberText(k) == [i \in 1..Len(DecDigits(k)) |-> DigitChar(DecDigits(k)[i])]

RECURSIVE Joined(_, _)
\* the texts of a sequence one after the other, `sep` between two of them
Joined(texts, sep) ==
    IF texts = <<>> THEN <<>>
    ELSE IF Len(texts) = 1 THEN texts[1]
    ELSE texts[1] \o sep \o Joined(Tail(texts), sep)

RECURSIVE ValueToString(_)
\* serde_json::Value::to_string(): the compact JSON text of the value
ValueToString(v) ==
    CASE v.kind = "null" -> <<"n", "u", "l", "l">>
      [] v.kind = "bool" -> IF v.val THEN <<"t", "r", "u", "e">>
                            ELSE <<"f", "a", "l", "s", "e">>
      [] v.kind = "number" -> NumberText(v.val)
      [] v.kind = "string" -> <<"\"">> \o v.val \o <<"\"">>
      [] v.kind = "array" ->
            <<"[">> \o Joined([i \in 1..Len(v.val) |-> ValueToString(v.val[i])],
                              <<",">>) \o <<"]">>
      [] v.kind = "object" ->
            <<"{">> \o Joined([i \in 1..Len(v.val) |->
                                  <<"\"", v.val[i].key, "\"", ":">>
                                      \o ValueToString(v.val[i].value)],
                              <<",">>) \o <<"}">>

\* main.rs:233-243: one KeyValue per entry of the object, in the order of the
\* map, its value the text of the entry's value
ValueToVec(value) ==
    [i \in 1..Len(value.val) |->
        [key |-> value.val[i].key, value |-> ValueToString(value.val[i].value)]]

\* the values a field is given
FieldValues ==
    { JsonNull, JsonBool(TRUE), JsonNumber(1), JsonNumber(12),
      JsonString(<<"x">>),
      JsonArray(<<JsonString(<<"x">>), JsonNull>>),
      JsonObject(<<[key |-> "k", value |-> JsonNumber(1)]>>) }
        \cup { NumberList(len) : len \in 0..MaxListLen }

FieldNames == <<"a", "b", "c">>

RECURSIVE EntriesOf(_, _)
\* the entries of the fields i.. of FieldNames that f gives a value
EntriesOf(f, i) ==
    IF i > Len(FieldNames) THEN <<>>
    ELSE (IF f[i].present
          THEN <<[key |-> FieldNames[i], value |-> f[i].value]>> ELSE <<>>)
         \o EntriesOf(f, i + 1)

\* the objects with fields among a, b, c, each of any of FieldValues
Objects ==
    { JsonObject(EntriesOf(f, 1)) :
        f \in [1..Len(FieldNames) ->
                 {[present |-> FALSE, value |-> JsonNull]}
                     \cup { [present |-> TRUE, value |-> v] : v \in FieldValues }] }

InitAttrs ==
    /\ \E o \in Objects : probe = [phase |-> "value", value |-> o]
    /\ source = [workflows |-> <<>>, avail |-> [w \in WfIds |-> 0],
                 created_at |-> 0, short |-> FALSE, jobsCap |-> 0, jobTimes |-> {}]
    /\ optsRuns = 0
    /\ mainPc = "list"
    /\ TasksIdle

\* main.rs:151 and 179: the attributes of a serialized job or run
FlattenValue ==
    /\ probe.phase = "value"
    /\ probe' = [phase |-> "attributes", value |-> probe.value,
                 attrs |-> ValueToVec(probe.value)]
    /\ UNCHANGED <<source, optsRuns, mainPc, workflows, spawnIdx, spawned, pc, n,
                   page, runs, idx, spans, bar, requests, jobsLog>>

NextAttrs == FlattenValue

SpecAttrs == InitAttrs /\ [][NextAttrs]_vars

-----------------------------------------------------------------------------
(* Properties *)

Listed == { workflows[i] : i \in 1..Len(workflows) }

\* the spans built while the k-th run of workflow w was handled
SpansOf(w, k) == SubSeq(spans[w], jobsLog[w][k].first, jobsLog[w][k].last)

\* the k-th run of workflow w got one span per job, in the order of the jobs,
\* and then its run span, all with the trace id of the run
HasFullTrace(w, k) ==
    LET e == jobsLog[w][k]
        s == SpansOf(w, k)
    IN  /\ Len(s) = Len(e.jobs) + 1
        /\ \A j \in 1..Len(e.jobs) :
              /\ s[j].kind = "job"
              /\ s[j].span_id = SpanIdOf(e.jobs[j].id)
              /\ s[j].trace_id = TraceIdOf(e.run.id)
        /\ s[Len(s)].kind = "run"
        /\ s[Len(s)].span_id = SpanIdOf(e.run.id)
        /\ s[Len(s)].trace_id = TraceIdOf(e.run.id)

\* C1: a run whose job listing failed contributes no span, the task goes on
\* to the next run, every later run whose listing succeeds gets its spans,
\* and the task does not end abnormally.
C1_SkippedRunContinues ==
    \A w \in WfIds : \A k \in 1..Len(jobsLog[w]) :
        ~jobsLog[w][k].ok =>
            /\ SpansOf(w, k) = <<>>
            /\ Len(jobsLog[w]) > k \/ idx[w] = k + 1
            /\ pc[w] # "panicked"
            /\ \A m \in (k + 1)..Len(jobsLog[w]) :
                  jobsLog[w][m].ok => HasFullTrace(w, m)

\* C2: a run whose job listing succeeded has exactly one span per job and
\* exactly one run span, with the span ids of the jobs and of the run and the
\* trace id of the run.
C2_OneSpanPerJobPlusRun ==
    \A w \in WfIds : \A k \in 1..Len(jobsLog[w]) :
        jobsLog[w][k].ok => HasFullTrace(w, k)

\* C3: retrieve_runs never holds more runs than opts.runs asks for, whatever
\* the pages the source answers with.
C3_AtMostDesired ==
    \A w \in WfIds :
        /\ Len(runs[w]) <= optsRuns
        /\ pc[w] = "retrieve_runs" => n[w] + Len(runs[w]) = optsRuns

\* the run list of opts.runs = 250 against 300 runs is complete after three pages
C3_Witness ==
    /\ pc[1] = "list_jobs"
    /\ optsRuns = 250
    /\ Len(runs[1]) = 250
    /\ Len(requests[1]) = 3

\* C4: against a source that holds fewer runs than opts.runs, retrieve_runs
\* returns all of them and sends no request after a page that came back
\* short; 250 wanted of 120 takes exactly 2 requests.
C4_ShortPageIsLast ==
    \A w \in WfIds :
        (pc[w] = "list_jobs" /\ ~source.short /\ source.avail[w] < optsRuns) =>
            /\ runs[w] = [k \in 1..source.avail[w] |-> RunAt(w, k)]
            /\ \A i \in 1..Len(requests[w]) :
                  requests[w][i].got < requests[w][i].per_page
                      => i = Len(requests[w])
            /\ (optsRuns = 250 /\ source.avail[w] = 120) => Len(requests[w]) = 2

\* the completion times of the jobs that have one
CompletedTimes(jobs) ==
    { jobs[j].completed_at : j \in 1..Len(jobs) } \ {NoTime}

Greatest(S) == CHOOSE x \in S : \A y \in S : y <= x

\* the run spans among the spans of the k-th run of workflow w
RunSpansOf(w, k) ==
    { SpansOf(w, k)[i] : i \in { i \in 1..Len(SpansOf(w, k)) : SpansOf(w, k)[i].kind = "run" } }

\* C5 as stated: the end time of a run span is the greatest completion time
\* of the run's jobs, and the run's created_at when no job has one.
C5_EndIsMaxCompleted ==
    \A w \in WfIds : \A k \in 1..Len(jobsLog[w]) :
        \A sp \in RunSpansOf(w, k) :
            LET T == CompletedTimes(jobsLog[w][k].jobs) IN
            sp.end = IF T = {} THEN jobsLog[w][k].run.created_at ELSE Greatest(T)

\* C5 as amended: the end time of a run span is the greatest completion time
\* of the run's listed jobs or the run's created_at, whichever is later, and
\* the run's created_at when no job has a completion time.
C5_EndIsMaxCompletedOrCreated ==
    \A w \in WfIds : \A k \in 1..Len(jobsLog[w]) :
        \A sp \in RunSpansOf(w, k) :
            LET T == CompletedTimes(JobsPage(jobsLog[w][k].jobs))
                created_at == jobsLog[w][k].run.created_at
            IN  sp.end = IF T = {} THEN created_at
                         ELSE Max(created_at, Greatest(T))

\* jobs completed at 1, at 2 and still running: the run span ends at 2
C5_Witness ==
    /\ Len(jobsLog[1]) = 1
    /\ jobsLog[1][1].ok
    /\ jobsLog[1][1].run.created_at = 0
    /\ Len(jobsLog[1][1].jobs) = 3
    /\ jobsLog[1][1].jobs[1].completed_at = 1
    /\ jobsLog[1][1].jobs[2].completed_at = 2
    /\ jobsLog[1][1].jobs[3].completed_at = NoTime
    /\ \E sp \in RunSpansOf(1, 1) : sp.end = 2

\* C6: the spans built for one run are its job spans first and its run span
\* last: the run span comes after the span of every job of the run, no job
\* span comes after it, and the spans of successive runs follow one another.
C6_JobSpansThenRunSpan ==
    \A w \in WfIds :
        /\ \A k \in 1..Len(jobsLog[w]) :
              LET e == jobsLog[w][k]
                  s == SpansOf(w, k)
              IN  /\ e.first = (IF k = 1 THEN 1 ELSE jobsLog[w][k - 1].last + 1)
                  /\ \A p \in 1..Len(s) :
                        s[p].kind = "run" =>
                            /\ s[p].of = e.run.id
                            /\ p = Len(s)
                            /\ \A j \in 1..Len(JobsPage(e.jobs)) :
                                  \E q \in 1..(p - 1) :
                                      s[q].kind = "job" /\ s[q].of = e.jobs[j].id
                  /\ \A q \in 1..Len(s) :
                        s[q].kind = "job" =>
                            \E j \in 1..Len(JobsPage(e.jobs)) : s[q].of = e.jobs[j].id
        /\ Len(spans[w]) =
              (IF jobsLog[w] = <<>> THEN 0 ELSE jobsLog[w][Len(jobsLog[w])].last)

\* a run of two jobs has its two job spans and then its run span
C6_Witness ==
    \E k \in 1..Len(jobsLog[1]) :
        /\ jobsLog[1][k].ok
        /\ Len(jobsLog[1][k].jobs) = 2
        /\ Len(SpansOf(1, k)) = 3
        /\ SpansOf(1, k)[1].kind = "job"
        /\ SpansOf(1, k)[2].kind = "job"
        /\ SpansOf(1, k)[3].kind = "run"

\* C7: a job without started_at gets no span and fails nothing: the other
\* jobs of the run get their spans, the run span is built and the task goes
\* on.
C7_PendingJobSkipped ==
    \A w \in WfIds : \A k \in 1..Len(jobsLog[w]) :
        LET e == jobsLog[w][k]
            s == SpansOf(w, k)
        IN  (e.ok /\ \E j \in 1..Len(e.jobs) : e.jobs[j].started_at = NoTime) =>
                /\ pc[w] # "panicked"
                /\ \A j \in 1..Len(e.jobs) :
                      (e.jobs[j].started_at = NoTime)
                          <=> ~\E q \in 1..Len(s) :
                                  s[q].kind = "job" /\ s[q].of = e.jobs[j].id
                /\ \E q \in 1..Len(s) : s[q].kind = "run"

\* retrieve_runs failed for workflow w: its last page request errored
FetchFailed(w) ==
    /\ requests[w] # <<>>
    /\ requests[w][Len(requests[w])].got = -1

\* C8: when retrieve_runs fails for one workflow, every other workflow whose
\* own run pages arrive has, when main returns, handled all of its runs and
\* built the spans of every run whose jobs were listed.
C8_SiblingsUnaffected ==
    \A w \in Listed :
        (FetchFailed(w) /\ mainPc = "returned") =>
            \A v \in Listed \ {w} :
                ~FetchFailed(v) =>
                    /\ pc[v] = "done"
                    /\ Len(jobsLog[v]) = Len(runs[v])
                    /\ \A k \in 1..Len(jobsLog[v]) :
                          jobsLog[v][k].ok => HasFullTrace(v, k)

\* C9: main spawns exactly one task per listed workflow, without waiting for
\* the tasks spawned before, and returns only when every task has ended,
\* normally or by a panic.
C9_JoinWaitsForAll ==
    /\ \A w \in WfIds : spawned[w] <= 1
    /\ \A w \in WfIds \ Listed : spawned[w] = 0
    /\ (mainPc = "spawn" /\ spawnIdx <= Len(workflows)) => ENABLED SpawnWorkflow
    /\ mainPc = "returned" =>
          \A w \in Listed : spawned[w] = 1 /\ pc[w] \in {"done", "panicked"}

\* main has returned from two workflows, one whose run page failed and one
\* that handled a run
C9_Witness ==
    /\ mainPc = "returned"
    /\ Len(workflows) = 2
    /\ \E w \in Listed : pc[w] = "panicked" /\ FetchFailed(w)
    /\ \E w \in Listed : pc[w] = "done" /\ Len(jobsLog[w]) > 0

\* C10: two distinct non-zero ids have distinct span ids and distinct trace
\* ids.
C10_IdsInjective ==
    (/\ probe.phase = "encoded"
     /\ probe.a # probe.b
     /\ probe.a # U64(0)
     /\ probe.b # U64(0))
        => /\ probe.span_a # probe.span_b
           /\ probe.trace_a # probe.trace_b

\* C11: encoding the id 0 never yields an identifier: an encoded id 0 has
\* neither the all-zero span id nor the all-zero trace id.
C11_ZeroIdRejected ==
    (probe.phase = "encoded" /\ probe.a = U64(0))
        => /\ probe.span_a # ZeroBytes(SpanIdHexDigits \div 2)
           /\ probe.trace_a # ZeroBytes(TraceIdHexDigits \div 2)

RECURSIVE ItemsGot(_)
\* the number of runs the answered page requests of a sequence brought
ItemsGot(reqs) ==
    IF reqs = <<>> THEN 0
    ELSE Max(0, Head(reqs).got) + ItemsGot(Tail(reqs))

\* C12: when a page comes back empty retrieve_runs stops and returns, without
\* an error, the runs of the pages before it, fewer than opts.runs: all the
\* runs of an exhausted source, the empty list against an empty source.
C12_EmptyPageEndsFetch ==
    \A w \in WfIds :
        (requests[w] # <<>> /\ requests[w][Len(requests[w])].got = 0) =>
            /\ pc[w] = "list_jobs"
            /\ bar[w].len = Len(runs[w])
            /\ Len(runs[w]) = ItemsGot(requests[w])
            /\ Len(runs[w]) < optsRuns
            /\ Len(runs[w]) <= source.avail[w]
            /\ source.avail[w] = 0 => runs[w] = <<>>

\* opts.runs = 30 against an empty source: one request, the empty list
C12_Witness ==
    /\ optsRuns = 30
    /\ source.avail[1] = 0
    /\ pc[1] = "list_jobs"
    /\ runs[1] = <<>>
    /\ Len(requests[1]) = 1
    /\ requests[1][1].got = 0

\* C13: retrieve_runs fails exactly when a page request errors: a failed
\* request, on the first page or a later one, is the last request, ends the
\* task with the error and hands no run list on; and without a failed request
\* the task never ends in retrieve_runs.
C13_FailsIffPageErrors ==
    \A w \in WfIds :
        /\ \A i \in 1..Len(requests[w]) :
              requests[w][i].got = -1 => i = Len(requests[w])
        /\ FetchFailed(w) =>
              /\ pc[w] = "panicked"
              /\ bar[w].len = InitialBarLen
              /\ jobsLog[w] = <<>>
        /\ (pc[w] = "panicked" /\ jobsLog[w] = <<>>) => FetchFailed(w)
        /\ (~FetchFailed(w) /\ pc[w] # "unspawned") =>
              pc[w] \in {"retrieve_runs", "list_jobs"}

\* the second page request fails after a first page of 100 runs
C13_Witness ==
    /\ Len(requests[1]) = 2
    /\ requests[1][1].got = 100
    /\ requests[1][2].got = -1
    /\ Len(runs[1]) = 100
    /\ pc[1] = "panicked"

\* the attributes with key k among a sequence of attributes
AttrsOf(attrs, k) == { attrs[i].value : i \in { i \in 1..Len(attrs) : attrs[i].key = k } }

\* the object {"a": 1, "b": null, "c": [1,2,3]}
ExampleObject ==
    JsonObject(<<[key |-> "a", value |-> JsonNumber(1)],
                 [key |-> "b", value |-> JsonNull],
                 [key |-> "c", value |-> NumberList(3)]>>)

\* C14: value_to_vec gives no attribute for a field whose value is null and
\* gives a list of numbers as the numbers joined by commas; of
\* {"a": 1, "b": null, "c": [1,2,3]} it gives exactly a = "1" and c = "1,2,3".
C14_NullOmittedListsJoined ==
    probe.phase = "attributes" =>
        /\ \A i \in 1..Len(probe.value.val) :
              LET e == probe.value.val[i] IN
              /\ e.value.kind = "null" => AttrsOf(probe.attrs, e.key) = {}
              /\ (e.value.kind = "array"
                     /\ \A j \in 1..Len(e.value.val) : e.value.val[j].kind = "number")
                    => AttrsOf(probe.attrs, e.key) =
                          { Joined([j \in 1..Len(e.value.val) |->
                                       NumberText(e.value.val[j].val)], <<",">>) }
        /\ probe.value = ExampleObject =>
              probe.attrs = <<[key |-> "a", value |-> <<"1">>],
                              [key |-> "c", value |-> <<"1", ",", "2", ",", "3">>]>>

\* C15: every job of a run is fetched, beyond the first 100 too: a run whose
\* jobs all have a start time gets one span per job and its run span, and
\* the run span ends no earlier than any of the jobs completed.
C15_AllJobsFetched ==
    \A w \in WfIds : \A k \in 1..Len(jobsLog[w]) :
        LET e == jobsLog[w][k]
            s == SpansOf(w, k)
        IN  (e.ok /\ \A j \in 1..Len(e.jobs) : e.jobs[j].started_at # NoTime) =>
                /\ Len(s) = Len(e.jobs) + 1
                /\ \A j \in 1..Len(e.jobs) :
                      \E q \in 1..Len(s) : s[q].kind = "job" /\ s[q].of = e.jobs[j].id
                /\ \A t \in CompletedTimes(e.jobs) : s[Len(s)].end >= t

\* C16: progress is reported once after every run, skipped runs included:
\* while the task handles its runs the position of its bar is the number of
\* runs handled, it never exceeds the number of runs retrieved and is equal
\* to it when the task is done.
C16_ProgressAfterEveryRun ==
    \A w \in WfIds :
        /\ pc[w] = "list_jobs" => bar[w].pos = idx[w] - 1
        /\ pc[w] \in {"list_jobs", "done"} =>
              /\ bar[w].len = Len(runs[w])
              /\ bar[w].pos <= Len(runs[w])
        /\ pc[w] = "done" => bar[w].pos = Len(runs[w])

\* C17: once main has returned or a task has ended, normally or not, every
\* run that got a job span also has its run span.
C17_NoPartialTrace ==
    \A w \in WfIds :
        (mainPc \in {"returned", "failed"} \/ pc[w] \in {"done", "panicked"}) =>
            \A k \in 1..Len(jobsLog[w]) :
                (\E q \in 1..Len(SpansOf(w, k)) : SpansOf(w, k)[q].kind = "job")
                    => RunSpansOf(w, k) # {}

\* C18: a task handles its runs one after the other in the order
\* retrieve_runs returned them: the k-th job listing is for the k-th run, it
\* is made only once the run list is complete and the spans of the runs
\* before are built, and the spans built for it are of that run only.
C18_RunsInOrder ==
    \A w \in WfIds :
        /\ pc[w] = "retrieve_runs" => jobsLog[w] = <<>> /\ spans[w] = <<>>
        /\ Len(jobsLog[w]) <= Len(runs[w])
        /\ pc[w] = "list_jobs" => Len(jobsLog[w]) = idx[w] - 1
        /\ \A k \in 1..Len(jobsLog[w]) :
              /\ jobsLog[w][k].run = runs[w][k]
              /\ jobsLog[w][k].first =
                    (IF k = 1 THEN 1 ELSE jobsLog[w][k - 1].last + 1)
              /\ \A q \in 1..Len(SpansOf(w, k)) :
                    SpansOf(w, k)[q].trace_id = TraceIdOf(runs[w][k].id)
        /\ Len(spans[w]) =
              (IF jobsLog[w] = <<>> THEN 0 ELSE jobsLog[w][Len(jobsLog[w])].last)

\* two runs handled in order, each with its own job span and run span
C18_Witness ==
    /\ Len(runs[1]) = 2
    /\ runs[1][1] # runs[1][2]
    /\ Len(jobsLog[1]) = 2
    /\ jobsLog[1][1].ok /\ jobsLog[1][2].ok
    /\ Len(SpansOf(1, 1)) = 2 /\ Len(SpansOf(1, 2)) = 2
    /\ spans[1][2].of = runs[1][1].id
    /\ spans[1][4].of = runs[1][2].id

\* C19: against a source that pages by offset, retrieve_runs returns exactly
\* the first min(opts.runs, available) runs of the workflow's list, each once
\* and in the order of the list.
C19_ExactlyFirstRuns ==
    \A w \in WfIds :
        (pc[w] = "list_jobs" /\ ~source.short) =>
            runs[w] = [k \in 1..Min(optsRuns, source.avail[w]) |-> RunAt(w, k)]

\* C20: a run span ends no earlier than it starts and no earlier than any
\* job span built for the run ends.
C20_RunSpanEndsLast ==
    \A w \in WfIds : \A k \in 1..Len(jobsLog[w]) :
        \A sp \in RunSpansOf(w, k) :
            /\ sp.start = jobsLog[w][k].run.created_at
            /\ sp.end >= sp.start
            /\ \A q \in 1..Len(SpansOf(w, k)) :
                  LET js == SpansOf(w, k)[q] IN
                  (js.kind = "job" /\ js.end # NoTime) => sp.end >= js.end

\* a run created at 1 with jobs completed at 3 and at 0: the run span ends at 3
C20_Witness ==
    /\ Len(jobsLog[1]) = 1
    /\ jobsLog[1][1].run.created_at = 1
    /\ Len(SpansOf(1, 1)) = 3
    /\ SpansOf(1, 1)[1].kind = "job" /\ SpansOf(1, 1)[1].end = 3
    /\ SpansOf(1, 1)[2].kind = "job" /\ SpansOf(1, 1)[2].end = 0
    /\ SpansOf(1, 1)[3].kind = "run" /\ SpansOf(1, 1)[3].end = 3

====
